---- MODULE Spec2Model ----
(***************************************************************************)
(* Orchestration core of ipdSummary.py: the Orchestrator (_mainLoop), the  *)
(* bounded JoinableQueues (_initQueues), the Worker pool and the Writer    *)
(* (_launchSlaveProcesses) and the Supervisor (monitorChildProcesses).     *)
(***************************************************************************)
EXTENDS Integers, Sequences, FiniteSets, TLC

\* ---------------------------------------------------------------- bounds
MaxWindows == 2
MaxLen == 2
MaxStride == 2
MaxWorkers == 2
MaxCpus == 2
MaxQueue == 2

\* ------------------------------------------------------- program values
\* multiprocessing.Queue(maxsize) with maxsize <= 0 uses SEM_VALUE_MAX
SemValueMax == 2147483647
\* exit code of a process killed by Process.terminate() (SIGTERM)
SigtermExit == -15
\* os._exit(n) hands n & 0377 to the parent
ExitStatusMod == 256

WorkerSlots == IF MaxWorkers > MaxCpus THEN MaxWorkers ELSE MaxCpus
Slots == 1..WorkerSlots
MaxChunks == MaxWindows * MaxLen
ChunkIds == 0..(MaxChunks - 1)

\* configurations drawn by Init
WindowSeqs == UNION {[1..n -> 0..MaxLen] : n \in 0..MaxWindows}
Strides == 1..MaxStride
NwArgs == 0..MaxWorkers
CpuCounts == 1..MaxCpus
QueueSizes == 0..MaxQueue
CrashCodes == {1, -9}

VARIABLES
  windows, stride, nwArg, cpus, maxQueueSize, profiling,
  numWorkers,
  orchPc, winIdx, cIdx, workChunkCounter, sentPut, joinIdx, finIdx,
  shutdownCalled,
  wq, wqUnfinished, rq, rqUnfinished, rbuf, rqSem,
  workerPc, held, wExit, sentGot,
  writerPc, writerHeld, writerExit,
  supPc, runExit, abortCode, killIdx, pollIdx, pollAll, pollFirst,
  enqLog, delivered, consumed, firstFail, pollFailedAtStart

cfgVars == <<windows, stride, nwArg, cpus, maxQueueSize, profiling>>
orchVars == <<numWorkers, orchPc, winIdx, cIdx, workChunkCounter, sentPut, joinIdx,
             finIdx, shutdownCalled>>
queueVars == <<wq, wqUnfinished, rq, rqUnfinished, rbuf, rqSem>>
workerVars == <<workerPc, held, wExit, sentGot>>
writerVars == <<writerPc, writerHeld, writerExit>>
supVars == <<supPc, runExit, abortCode, killIdx, pollIdx, pollAll, pollFirst>>
ghostVars == <<enqLog, delivered, consumed, firstFail, pollFailedAtStart>>
vars == <<cfgVars, orchVars, queueVars, workerVars, writerVars, supVars, ghostVars>>

\* ----------------------------------------------------------- helpers
\* ReferenceUtils.enumerateChunks: ceil(L / stride) chunks per window
NumChunks(L, s) == (L + s - 1) \div s

RECURSIVE TotalChunks(_, _)
TotalChunks(ws, s) ==
  IF ws = <<>> THEN 0 ELSE NumChunks(Head(ws), s) + TotalChunks(Tail(ws), s)

\* bounded semaphore created one slot too large
CapPlusOne(c) == IF c <= 0 THEN SemValueMax ELSE c + 1

\* JoinableQueue(maxsize): capacity of the bounded semaphore
Cap(c) == IF c <= 0 THEN SemValueMax ELSE c

\* put that loses the item
QPutLost(q, x) == q

\* get that leaves the item at the head of the queue
QGetPeek(q) == q

\* JoinableQueue.put / get
QPut(q, x) == Append(q, x)
QGet(q) == Tail(q)

ChunkItem(i) == [kind |-> "chunk", id |-> i]
SentinelItem == [kind |-> "sentinel", id |-> 0]

Bump(x) == IF x < 2 THEN x + 1 ELSE 2

\* the monitored children: Workers 1..numWorkers, then the Writer
Children == 1..(numWorkers + 1)
IsWriter(i) == i = numWorkers + 1
WorkerAlive(w) == workerPc[w] \notin {"none", "exited"}
ChildAlive(i) == IF IsWriter(i) THEN writerPc \notin {"none", "exited"}
                 ELSE workerPc[i] \notin {"none", "exited"}
ChildCode(i) == IF IsWriter(i) THEN writerExit ELSE wExit[i]
\* p.exitcode is None while alive, so only exited children with code # 0
NonzeroPositive(i) == ~ChildAlive(i) /\ ChildCode(i) > 0
Nonzero(i) == ~ChildAlive(i) /\ ChildCode(i) # 0

\* items put on the ResultQueue still in the Workers' feeder buffers
RECURSIVE BufLen(_)
BufLen(S) ==
  IF S = {} THEN 0
  ELSE LET w == CHOOSE x \in S : TRUE IN Len(rbuf[w]) + BufLen(S \ {w})

\* number of chunks enumerated for the current window
CurChunks == NumChunks(windows[winIdx], stride)

PostSentinel == {"joinWorkers", "joinMonitor", "joinRq", "joinWriter", "done"}

\* ----------------------------------------------------------- Init
InitFrom(W, S, N, P, Q, F) ==
  /\ windows \in W
  /\ stride \in S
  /\ nwArg \in N
  /\ cpus \in P
  /\ maxQueueSize \in Q
  /\ profiling \in F
  /\ numWorkers = nwArg
  /\ orchPc = "launch"
  /\ winIdx = 1
  /\ cIdx = 0
  /\ workChunkCounter = 0
  /\ sentPut = 0
  /\ joinIdx = 0
  /\ finIdx = 0
  /\ shutdownCalled = FALSE
  /\ wq = <<>>
  /\ wqUnfinished = 0
  /\ rq = <<>>
  /\ rqUnfinished = 0
  /\ rbuf = [w \in Slots |-> <<>>]
  /\ rqSem = 0
  /\ workerPc = [w \in Slots |-> "none"]
  /\ held = [w \in Slots |-> 0]
  /\ wExit = [w \in Slots |-> 0]
  /\ sentGot = [w \in Slots |-> 0]
  /\ writerPc = "none"
  /\ writerHeld = 0
  /\ writerExit = 0
  /\ supPc = "none"
  /\ runExit = 0
  /\ abortCode = 0
  /\ killIdx = 0
  /\ pollIdx = 0
  /\ pollAll = FALSE
  /\ pollFirst = 0
  /\ enqLog = <<>>
  /\ delivered = [i \in ChunkIds |-> 0]
  /\ consumed = [i \in ChunkIds |-> 0]
  /\ firstFail = 0
  /\ pollFailedAtStart = {}

Init == InitFrom(WindowSeqs, Strides, NwArgs, CpuCounts, QueueSizes, {FALSE})

\* narrower configurations: one window, stride 1, a positive queue bound
CrashWindowSeqs == {ws \in WindowSeqs : Len(ws) <= 1}
InitNarrow == InitFrom(CrashWindowSeqs, {1}, NwArgs, CpuCounts, 1..MaxQueue, BOOLEAN)

\* runs with faults: one window of one chunk, capacity 1
FaultWindowSeqs == {<<1>>}
InitFault == InitFrom(FaultWindowSeqs, {1}, NwArgs, CpuCounts, {1}, BOOLEAN)

\* ----------------------------------------------------------- Orchestrator
\* _launchSlaveProcesses, up to _initQueues: numWorkers < 1 -> cpu_count()
LaunchInit ==
  /\ orchPc = "launch"
  /\ numWorkers' = IF nwArg < 1 THEN cpus ELSE nwArg
  /\ orchPc' = "spawnWorkers"
  /\ UNCHANGED <<cfgVars, shutdownCalled, winIdx, cIdx, workChunkCounter, sentPut, joinIdx,
                 finIdx, queueVars, workerVars, writerVars, supVars,
                 ghostVars>>

\* Workers started so far (a started process never returns to "none")
Spawned == Cardinality({w \in Slots : workerPc[w] # "none"})

\* for i in range(numWorkers): self._workers.append(p); p.start()
SpawnWorker ==
  /\ orchPc = "spawnWorkers"
  /\ Spawned < numWorkers
  /\ workerPc' = [workerPc EXCEPT ![Spawned + 1] = "get"]
  /\ orchPc' = IF Spawned + 1 = numWorkers THEN "spawnWriter" ELSE "spawnWorkers"
  /\ UNCHANGED <<cfgVars, numWorkers, shutdownCalled, winIdx, cIdx, workChunkCounter,
                 sentPut, joinIdx, finIdx, queueVars, held, wExit, sentGot,
                 writerVars, supVars, ghostVars>>

\* self._resultCollectorProcess.start()
SpawnWriter ==
  /\ orchPc = "spawnWriter"
  /\ writerPc' = "get"
  /\ orchPc' = "startMonitor"
  /\ UNCHANGED <<cfgVars, numWorkers, shutdownCalled, winIdx, cIdx, workChunkCounter,
                 sentPut, joinIdx, finIdx, queueVars, workerVars, writerHeld,
                 writerExit, supVars, ghostVars>>

\* self.monitoringThread.start()
StartMonitor ==
  /\ orchPc = "startMonitor"
  /\ supPc' = "running"
  /\ orchPc' = "enqueue"
  /\ UNCHANGED <<cfgVars, numWorkers, shutdownCalled, winIdx, cIdx, workChunkCounter,
                 sentPut, joinIdx, finIdx, queueVars, workerVars, writerVars,
                 runExit, abortCode, killIdx, pollIdx, pollAll, pollFirst,
                 ghostVars>>

\* for chunk in enumerateChunks(stride, window):
\*     self._workQueue.put((self.workChunkCounter, chunk)); counter += 1
EnqueueChunk ==
  /\ orchPc = "enqueue"
  /\ winIdx <= Len(windows)
  /\ cIdx < CurChunks
  /\ Len(wq) < Cap(maxQueueSize)
  /\ wq' = QPut(wq, ChunkItem(workChunkCounter))
  /\ wqUnfinished' = wqUnfinished + 1
  /\ enqLog' = Append(enqLog, workChunkCounter)
  /\ workChunkCounter' = workChunkCounter + 1
  /\ cIdx' = cIdx + 1
  /\ UNCHANGED <<cfgVars, numWorkers, shutdownCalled, orchPc, winIdx, sentPut, joinIdx, finIdx,
                 rq, rqUnfinished, rbuf, rqSem, workerVars, writerVars, supVars,
                 delivered, consumed, firstFail, pollFailedAtStart>>

\* workChunkCounter reset at every window
AdvanceWindowReset ==
  /\ orchPc = "enqueue"
  /\ winIdx <= Len(windows)
  /\ cIdx >= CurChunks
  /\ winIdx' = winIdx + 1
  /\ cIdx' = 0
  /\ workChunkCounter' = 0
  /\ UNCHANGED <<cfgVars, numWorkers, shutdownCalled, orchPc, sentPut,
                 joinIdx, finIdx, queueVars, workerVars, writerVars, supVars,
                 ghostVars>>

\* next iteration of `for window in self.referenceWindows`
AdvanceWindow ==
  /\ orchPc = "enqueue"
  /\ winIdx <= Len(windows)
  /\ cIdx >= CurChunks
  /\ winIdx' = winIdx + 1
  /\ cIdx' = 0
  /\ UNCHANGED <<cfgVars, numWorkers, shutdownCalled, orchPc, workChunkCounter, sentPut,
                 joinIdx, finIdx, queueVars, workerVars, writerVars, supVars,
                 ghostVars>>

EndWindows ==
  /\ orchPc = "enqueue"
  /\ winIdx > Len(windows)
  /\ orchPc' = "sentinels"
  /\ UNCHANGED <<cfgVars, numWorkers, shutdownCalled, winIdx, cIdx, workChunkCounter,
                 sentPut, joinIdx, finIdx, queueVars, workerVars, writerVars,
                 supVars, ghostVars>>

\* for i in range(self.args.numWorkers): self._workQueue.put(None)
\* (self.options is self.args, so this is the count after the cpu_count
\* replacement)
SentinelCountArg == nwArg

SentinelCount == numWorkers

PutSentinel ==
  /\ orchPc = "sentinels"
  /\ sentPut < SentinelCount
  /\ Len(wq) < Cap(maxQueueSize)
  /\ wq' = QPut(wq, SentinelItem)
  /\ wqUnfinished' = wqUnfinished + 1
  /\ sentPut' = sentPut + 1
  /\ UNCHANGED <<cfgVars, numWorkers, shutdownCalled, orchPc, winIdx, cIdx,
                 workChunkCounter, joinIdx, finIdx, rq, rqUnfinished, rbuf, rqSem,
                 workerVars,
                 writerVars, supVars, ghostVars>>

EndSentinels ==
  /\ orchPc = "sentinels"
  /\ sentPut >= SentinelCount
  /\ orchPc' = "joinWorkers"
  /\ UNCHANGED <<cfgVars, numWorkers, shutdownCalled, winIdx, cIdx, workChunkCounter,
                 sentPut, joinIdx, finIdx, queueVars, workerVars, writerVars,
                 supVars, ghostVars>>

\* only the first Worker is joined before moving on
JoinWorkerFirst ==
  /\ orchPc = "joinWorkers"
  /\ joinIdx < numWorkers
  /\ workerPc[joinIdx + 1] = "exited"
  /\ joinIdx' = joinIdx + 1
  /\ orchPc' = "joinMonitor"
  /\ UNCHANGED <<cfgVars, numWorkers, shutdownCalled, winIdx, cIdx, workChunkCounter,
                 sentPut, finIdx, queueVars, workerVars, writerVars, supVars,
                 ghostVars>>

\* for w in self._workers: w.join()
JoinWorker ==
  /\ orchPc = "joinWorkers"
  /\ joinIdx < numWorkers
  /\ workerPc[joinIdx + 1] = "exited"
  /\ joinIdx' = joinIdx + 1
  /\ orchPc' = IF joinIdx + 1 = numWorkers THEN "joinMonitor" ELSE "joinWorkers"
  /\ UNCHANGED <<cfgVars, numWorkers, shutdownCalled, winIdx, cIdx, workChunkCounter,
                 sentPut, finIdx, queueVars, workerVars, writerVars, supVars,
                 ghostVars>>

\* self.monitoringThread.join()
JoinMonitor ==
  /\ orchPc = "joinMonitor"
  /\ supPc = "returned"
  /\ orchPc' = "joinRq"
  /\ UNCHANGED <<cfgVars, numWorkers, shutdownCalled, winIdx, cIdx, workChunkCounter,
                 sentPut, joinIdx, finIdx, queueVars, workerVars, writerVars,
                 supVars, ghostVars>>

\* self._resultsQueue.join(): wait until every put item is task_done
JoinRq ==
  /\ orchPc = "joinRq"
  /\ rqUnfinished = 0
  /\ orchPc' = "joinWriter"
  /\ UNCHANGED <<cfgVars, numWorkers, shutdownCalled, winIdx, cIdx, workChunkCounter,
                 sentPut, joinIdx, finIdx, queueVars, workerVars, writerVars,
                 supVars, ghostVars>>

\* self._resultCollectorProcess.join(); ...; return 0
JoinWriter ==
  /\ orchPc = "joinWriter"
  /\ writerPc = "exited"
  /\ orchPc' = "done"
  /\ runExit' = 0
  /\ UNCHANGED <<cfgVars, numWorkers, shutdownCalled, winIdx, cIdx, workChunkCounter,
                 sentPut, joinIdx, finIdx, queueVars, workerVars, writerVars,
                 supPc, abortCode, killIdx, pollIdx, pollAll, pollFirst,
                 ghostVars>>

\* ----------------------------------------------------------- Worker
\* chunkDesc = workQueue.get(); a sentinel ends the loop, and the process
\* then exits once its feeder thread has flushed its buffer (exit code 0)
WorkerGet(w) ==
  /\ workerPc[w] = "get"
  /\ wq # <<>>
  /\ wq' = QGet(wq)
  /\ IF Head(wq).kind = "sentinel"
       THEN /\ workerPc' = [workerPc EXCEPT ![w] = "exiting"]
            /\ sentGot' = [sentGot EXCEPT ![w] = @ + 1]
            /\ wqUnfinished' = wqUnfinished - 1
            /\ UNCHANGED <<held, delivered>>
       ELSE /\ workerPc' = [workerPc EXCEPT ![w] = "proc"]
            /\ held' = [held EXCEPT ![w] = Head(wq).id]
            /\ delivered' = [delivered EXCEPT ![Head(wq).id] = Bump(@)]
            /\ UNCHANGED <<sentGot, wqUnfinished>>
  /\ UNCHANGED <<cfgVars, orchVars, rq, rqUnfinished, rbuf, rqSem, wExit,
                 writerVars, supVars, enqLog, consumed, firstFail,
                 pollFailedAtStart>>

\* resultsQueue.put((chunkId, result)): acquire a slot of the bounded
\* semaphore and append to this process's buffer; workQueue.task_done()
WorkerPut(w) ==
  /\ workerPc[w] = "proc"
  /\ rqSem < Cap(maxQueueSize)
  /\ rqSem' = rqSem + 1
  /\ rbuf' = [rbuf EXCEPT ![w] = QPut(@, ChunkItem(held[w]))]
  /\ rqUnfinished' = rqUnfinished + 1
  /\ wqUnfinished' = wqUnfinished - 1
  /\ workerPc' = [workerPc EXCEPT ![w] = "get"]
  /\ UNCHANGED <<cfgVars, orchVars, wq, rq, held, wExit, sentGot, writerVars,
                 supVars, ghostVars>>

\* the feeder thread of Worker w writes the oldest buffered item to the pipe
Flush(w) ==
  /\ WorkerAlive(w)
  /\ rbuf[w] # <<>>
  /\ rq' = Append(rq, Head(rbuf[w]))
  /\ rbuf' = [rbuf EXCEPT ![w] = Tail(@)]
  /\ UNCHANGED <<cfgVars, orchVars, wq, wqUnfinished, rqUnfinished, rqSem,
                 workerVars, writerVars, supVars, ghostVars>>

\* process exit joins the feeder thread, then the exit code is 0
WorkerExit(w) ==
  /\ workerPc[w] = "exiting"
  /\ rbuf[w] = <<>>
  /\ workerPc' = [workerPc EXCEPT ![w] = "exited"]
  /\ wExit' = [wExit EXCEPT ![w] = 0]
  /\ UNCHANGED <<cfgVars, orchVars, queueVars, held, sentGot, writerVars,
                 supVars, ghostVars>>

\* ----------------------------------------------------------- Writer
\* resultsQueue.get(): read the pipe, release a semaphore slot
WriterGet ==
  /\ writerPc = "get"
  /\ rq # <<>>
  /\ rq' = QGet(rq)
  /\ rqSem' = rqSem - 1
  /\ writerHeld' = Head(rq).id
  /\ consumed' = [consumed EXCEPT ![Head(rq).id] = Bump(@)]
  /\ writerPc' = "ack"
  /\ UNCHANGED <<cfgVars, orchVars, wq, wqUnfinished, rqUnfinished, rbuf,
                 workerVars, writerExit, supVars, enqLog, delivered,
                 firstFail, pollFailedAtStart>>

\* output collaborators handle the record; resultsQueue.task_done()
WriterAck ==
  /\ writerPc = "ack"
  /\ rqUnfinished' = rqUnfinished - 1
  /\ writerPc' = "get"
  /\ UNCHANGED <<cfgVars, orchVars, wq, wqUnfinished, rq, rbuf, rqSem,
                 workerVars, writerHeld, writerExit, supVars, ghostVars>>

\* Writer (spec 4.4): it stops only when the Orchestrator has told it to
\* through an explicit shutdown call, after handling what is left on the
\* ResultQueue
WriterStop ==
  /\ writerPc = "get"
  /\ shutdownCalled
  /\ rq = <<>>
  /\ writerPc' = "exited"
  /\ writerExit' = 0
  /\ UNCHANGED <<cfgVars, orchVars, queueVars, workerVars, writerHeld,
                 supVars, ghostVars>>

\* the explicit shutdown call to the Writer after all Workers have joined
\* that spec 4.4 prescribes; _mainLoop (lines 563-577) never makes it
ShutdownCall ==
  /\ orchPc = "joinMonitor"
  /\ ~shutdownCalled
  /\ shutdownCalled' = TRUE
  /\ UNCHANGED <<cfgVars, numWorkers, orchPc, winIdx, cIdx, workChunkCounter,
                 sentPut, joinIdx, finIdx, queueVars, workerVars, writerVars,
                 supVars, ghostVars>>

\* ----------------------------------------------------------- Supervisor
\* top of `while True:` in monitorChildProcesses
PollStart ==
  /\ supPc = "running"
  /\ supPc' = "scanAlive"
  /\ pollIdx' = 0
  /\ pollFailedAtStart' = {i \in Children : ~ChildAlive(i) /\ ChildCode(i) # 0}
  /\ UNCHANGED <<cfgVars, orchVars, queueVars, workerVars, writerVars,
                 runExit, abortCode, killIdx, pollAll, pollFirst, enqLog,
                 delivered, consumed, firstFail>>

\* p.is_alive() with p the i-th child
IsAliveNegated(i) == ~ChildAlive(i)

IsAlive(i) == ChildAlive(i)

\* all_exited = all(not p.is_alive() for p in children): one child per
\* step, stopping at the first alive child
PollScanAlive ==
  /\ supPc = "scanAlive"
  /\ LET i == pollIdx + 1 IN
       IF IsAlive(i)
         THEN /\ pollAll' = FALSE
              /\ supPc' = "scanCodes"
              /\ pollIdx' = 0
         ELSE IF i = numWorkers + 1
           THEN /\ pollAll' = TRUE
                /\ supPc' = "scanCodes"
                /\ pollIdx' = 0
           ELSE /\ pollIdx' = i
                /\ UNCHANGED <<pollAll, supPc>>
  /\ UNCHANGED <<cfgVars, orchVars, queueVars, workerVars, writerVars,
                 runExit, abortCode, killIdx, pollFirst, ghostVars>>

\* the last nonzero code read is kept
LastExit(acc, i) == IF Nonzero(i) THEN ChildCode(i) ELSE acc

\* nonzero_exits[0]: the first nonzero code read is kept
FirstExit(acc, i) == IF acc = 0 /\ Nonzero(i) THEN ChildCode(i) ELSE acc

\* nonzero_exits = [p.exitcode for p in children if p.exitcode]: one
\* child per step, keeping the first nonzero code read; after the last
\* child: exitcode = nonzero_exits[0] and start killing, or return 0 when
\* all_exited, or time.sleep(1) and poll again
PollScanCode ==
  /\ supPc = "scanCodes"
  /\ LET i == pollIdx + 1
         first == FirstExit(pollFirst, i)
     IN IF i < numWorkers + 1
          THEN /\ pollIdx' = i
               /\ pollFirst' = first
               /\ UNCHANGED <<supPc, abortCode, killIdx, pollAll>>
          ELSE /\ pollIdx' = 0
               /\ pollFirst' = 0
               /\ pollAll' = FALSE
               /\ IF first # 0
                    THEN /\ supPc' = "killing"
                         /\ abortCode' = first
                         /\ killIdx' = 0
                    ELSE /\ supPc' = IF pollAll THEN "returned" ELSE "running"
                         /\ UNCHANGED <<abortCode, killIdx>>
  /\ UNCHANGED <<cfgVars, orchVars, queueVars, workerVars, writerVars,
                 runExit, ghostVars>>

\* for p in children: if p.is_alive(): p.terminate()
\* (a terminated Worker's unflushed buffer is lost)
KillStep ==
  /\ supPc = "killing"
  /\ killIdx < numWorkers + 1
  /\ LET i == killIdx + 1 IN
       IF IsWriter(i)
         THEN /\ writerPc' = IF ChildAlive(i) THEN "exited" ELSE writerPc
              /\ writerExit' = IF ChildAlive(i) THEN SigtermExit ELSE writerExit
              /\ UNCHANGED <<workerPc, wExit, rbuf>>
         ELSE /\ workerPc' = [workerPc EXCEPT ![i] =
                                IF ChildAlive(i) THEN "exited" ELSE @]
              /\ wExit' = [wExit EXCEPT ![i] =
                             IF ChildAlive(i) THEN SigtermExit ELSE @]
              /\ rbuf' = [rbuf EXCEPT ![i] = IF ChildAlive(i) THEN <<>> ELSE @]
              /\ UNCHANGED <<writerPc, writerExit>>
  /\ killIdx' = killIdx + 1
  /\ UNCHANGED <<cfgVars, orchVars, wq, wqUnfinished, rq, rqUnfinished, rqSem,
                 held, sentGot, writerHeld, supPc, runExit, abortCode,
                 pollIdx, pollAll, pollFirst, ghostVars>>

\* os._exit(exitcode): the whole Orchestrator process ends
OsExit ==
  /\ supPc = "killing"
  /\ killIdx = numWorkers + 1
  /\ runExit' = abortCode % ExitStatusMod
  /\ supPc' = "aborted"
  /\ orchPc' = "killed"
  /\ UNCHANGED <<cfgVars, numWorkers, shutdownCalled, winIdx, cIdx, workChunkCounter,
                 sentPut, joinIdx, finIdx, queueVars, workerVars, writerVars,
                 abortCode, killIdx, pollIdx, pollAll, pollFirst, ghostVars>>

\* ----------------------------------------------------------- faults
\* an alive Worker or the Writer dies with a nonzero exit code (a Worker's
\* unflushed buffer is lost with it)
Crash(i, code) ==
  /\ i \in Children
  /\ ChildAlive(i)
  /\ IF IsWriter(i)
       THEN /\ writerPc' = "exited"
            /\ writerExit' = code
            /\ UNCHANGED <<workerPc, wExit, rbuf>>
       ELSE /\ workerPc' = [workerPc EXCEPT ![i] = "exited"]
            /\ wExit' = [wExit EXCEPT ![i] = code]
            /\ rbuf' = [rbuf EXCEPT ![i] = <<>>]
            /\ UNCHANGED <<writerPc, writerExit>>
  /\ firstFail' = IF firstFail = 0 THEN code ELSE firstFail
  /\ UNCHANGED <<cfgVars, orchVars, wq, wqUnfinished, rq, rqUnfinished, rqSem,
                 held, sentGot, writerHeld, supVars, enqLog, delivered,
                 consumed, pollFailedAtStart>>

\* the steps of _mainLoop where an exception can escape it
MainSeqPcs == {"launch", "spawnWorkers", "spawnWriter", "startMonitor",
               "enqueue", "sentinels", "joinWorkers", "joinMonitor",
               "joinRq", "joinWriter"}

\* an exception escapes self._mainLoop() inside run(). With --doProfiling it
\* is called through cProfile.runctx and propagates as is; otherwise the
\* finally clause runs first.
OrchFault ==
  /\ orchPc \in MainSeqPcs
  /\ orchPc' = IF profiling THEN "raised" ELSE "finally"
  /\ finIdx' = 0
  /\ UNCHANGED <<cfgVars, numWorkers, shutdownCalled, winIdx, cIdx, workChunkCounter,
                 sentPut, joinIdx, queueVars, workerVars, writerVars,
                 supVars, ghostVars>>

\* finally: for w in self._workers: if w.is_alive(): w.terminate()
\* (Workers never started are not alive)
FinallyStep ==
  /\ orchPc = "finally"
  /\ finIdx < WorkerSlots
  /\ LET w == finIdx + 1 IN
       /\ workerPc' = [workerPc EXCEPT ![w] = IF WorkerAlive(w) THEN "exited" ELSE @]
       /\ wExit' = [wExit EXCEPT ![w] = IF WorkerAlive(w) THEN SigtermExit ELSE @]
       /\ rbuf' = [rbuf EXCEPT ![w] = IF WorkerAlive(w) THEN <<>> ELSE @]
  /\ finIdx' = finIdx + 1
  /\ orchPc' = IF finIdx + 1 = WorkerSlots THEN "raised" ELSE "finally"
  /\ UNCHANGED <<cfgVars, numWorkers, shutdownCalled, winIdx, cIdx, workChunkCounter,
                 sentPut, joinIdx, wq, wqUnfinished, rq, rqUnfinished, rqSem,
                 held, sentGot, writerVars, supVars, ghostVars>>

\* ----------------------------------------------------------- specs
\* _mainLoop up to the Worker joins; its tail (JoinMonitor, JoinRq,
\* JoinWriter) waits for the Supervisor, which returns only once the Writer
\* has exited with 0, and the Writer is never told to stop
OrchStep == LaunchInit \/ SpawnWorker \/ SpawnWriter \/ StartMonitor
            \/ EnqueueChunk \/ AdvanceWindow \/ EndWindows
            \/ PutSentinel \/ EndSentinels \/ JoinWorker
OrchTail == JoinMonitor \/ JoinRq \/ JoinWriter
WorkerStep(w) == WorkerGet(w) \/ WorkerPut(w) \/ WorkerExit(w)
FeederStep(w) == Flush(w)
WriterStep == WriterGet \/ WriterAck
SupStep == PollStart \/ PollScanAlive \/ PollScanCode

\* runs of the program in which no child fails
NextOK ==
  \/ OrchStep
  \/ \E w \in Slots : WorkerStep(w)
  \/ \E w \in Slots : FeederStep(w)
  \/ WriterStep
  \/ SupStep

SpecOK == Init /\ [][NextOK]_vars

\* faults: any alive child may fail, the Supervisor may abort, an exception
\* may escape the main sequence
Faults ==
  \/ KillStep
  \/ OsExit
  \/ \E i \in 1..(WorkerSlots + 1), c \in CrashCodes : Crash(i, c)
  \/ OrchFault
  \/ FinallyStep

\* every run of the program
Next == NextOK \/ Faults

Spec == InitFault /\ [][Next]_vars

\* fault-free runs where every process, feeder thread and the monitoring
\* thread keeps being scheduled
FairSpec ==
  /\ InitNarrow /\ [][NextOK]_vars
  /\ WF_vars(OrchStep)
  /\ \A w \in Slots : WF_vars(WorkerStep(w))
  /\ \A w \in Slots : WF_vars(FeederStep(w))
  /\ WF_vars(WriterStep)
  /\ WF_vars(SupStep)

\* the program with the shutdown call of spec 4.4 added after the Worker
\* joins, so that the Writer can stop and the tail of _mainLoop can run
OrchShutdownStep == OrchStep \/ ShutdownCall \/ OrchTail
WriterShutdownStep == WriterStep \/ WriterStop

NextShutdownOK ==
  \/ OrchShutdownStep
  \/ \E w \in Slots : WorkerStep(w)
  \/ \E w \in Slots : FeederStep(w)
  \/ WriterShutdownStep
  \/ SupStep

NextShutdown == NextShutdownOK \/ Faults

SpecShutdown == InitFault /\ [][NextShutdown]_vars

FairShutdown ==
  /\ InitNarrow /\ [][NextShutdownOK]_vars
  /\ WF_vars(OrchShutdownStep)
  /\ \A w \in Slots : WF_vars(WorkerStep(w))
  /\ \A w \in Slots : WF_vars(FeederStep(w))
  /\ WF_vars(WriterShutdownStep)
  /\ WF_vars(SupStep)

\* ======================================================== properties
\* C1: the chunk indices enqueued on the WorkQueue are 0, 1, 2, ... in
\* enqueue order, each used once, and once the windows are exhausted there
\* are exactly TotalChunks = sum of ceil(L_i / stride) of them, for every
\* worker count.
C1_ChunkIndices ==
  /\ \A k \in 1..Len(enqLog) : enqLog[k] = k - 1
  /\ Len(enqLog) <= TotalChunks(windows, stride)
  /\ (orchPc \in {"sentinels"} \cup PostSentinel
        => Len(enqLog) = TotalChunks(windows, stride))

C1_Witness ==
  /\ orchPc = "sentinels"
  /\ Len(windows) = 2
  /\ \A k \in 1..2 : NumChunks(windows[k], stride) >= 1
  /\ Len(enqLog) >= 3
  /\ numWorkers = 2

\* C2 (as stated): each queue holds at most maxQueueSize outstanding items,
\* counting items retrieved but not yet acknowledged (task_done), for a
\* positive maxQueueSize.
C2_Original ==
  maxQueueSize >= 1 =>
    /\ wqUnfinished <= maxQueueSize
    /\ rqUnfinished <= maxQueueSize

\* C2 (amended): for a positive maxQueueSize each queue holds at most
\* maxQueueSize not-yet-retrieved items; retrieved-but-unacknowledged items
\* are outside the bound, so the WorkQueue has at most maxQueueSize plus
\* numWorkers outstanding items and the ResultQueue at most maxQueueSize + 1.
C2_QueueBound ==
  maxQueueSize >= 1 =>
    /\ Len(wq) <= maxQueueSize
    /\ Len(rq) + BufLen(Slots) <= maxQueueSize
    /\ wqUnfinished <= maxQueueSize + numWorkers
    /\ rqUnfinished <= maxQueueSize + 1

C2_Witness ==
  /\ maxQueueSize = 1
  /\ Len(wq) = 1
  /\ wqUnfinished = 2

\* C3: the number of not-yet-retrieved items in the WorkQueue and in the
\* ResultQueue never exceeds the configured maxQueueSize C, for any C.
C3_Original ==
  /\ Len(wq) <= maxQueueSize
  /\ Len(rq) + BufLen(Slots) <= maxQueueSize

\* C4: after the WorkChunks the Orchestrator puts exactly numWorkers
\* sentinels, numWorkers being the count actually launched (cpu_count() when
\* --numWorkers < 1); each sentinel is taken by a distinct Worker, and a
\* Worker that took its sentinel never receives a WorkChunk afterwards.
C4_Sentinels ==
  /\ [](supPc # "none" =>
          /\ numWorkers = (IF nwArg < 1 THEN cpus ELSE nwArg)
          /\ sentPut <= numWorkers
          /\ (orchPc \in PostSentinel => sentPut = numWorkers)
          /\ Cardinality({w \in Slots : sentGot[w] >= 1}) <= sentPut
          /\ \A w \in Slots : sentGot[w] <= 1
          /\ \A w \in Slots : sentGot[w] >= 1 => w <= numWorkers)
  /\ [][\A w \in Slots : sentGot[w] >= 1 =>
           /\ workerPc'[w] \in {"exiting", "exited"}
           /\ held'[w] = held[w]
           /\ sentGot'[w] = sentGot[w]]_vars

C4_Witness ==
  /\ nwArg = 0
  /\ cpus = 2
  /\ orchPc \in PostSentinel
  /\ \A w \in 1..numWorkers : sentGot[w] = 1

\* C5: no WorkChunk is ever delivered to more than one Worker and no
\* ResultRecord to more than one consumer.
C5_ExclusiveHandOff ==
  \A i \in ChunkIds : delivered[i] <= 1 /\ consumed[i] <= 1

C5_Witness ==
  /\ numWorkers = 2
  /\ TotalChunks(windows, stride) >= 2
  /\ \A i \in 0..(TotalChunks(windows, stride) - 1) : consumed[i] = 1
  /\ delivered[0] = 1 /\ delivered[1] = 1

\* C9: the Orchestrator waits for the Supervisor only after every Worker
\* has exited (all joined), and waits for the ResultQueue to drain and for
\* the Writer only after the Supervisor has returned; so the drain-wait
\* starts only when no Worker can still produce.
C9_JoinOrder ==
  /\ orchPc \in {"joinMonitor", "joinRq", "joinWriter", "done"} =>
       /\ joinIdx = numWorkers
       /\ \A w \in 1..numWorkers : workerPc[w] = "exited"
  /\ orchPc \in {"joinRq", "joinWriter", "done"} => supPc = "returned"
  /\ orchPc \in {"joinWriter", "done"} => rqUnfinished = 0

C9_Witness ==
  /\ orchPc = "joinWriter"
  /\ numWorkers = 2
  /\ Len(enqLog) >= 1

\* C6: with no crash, every WorkChunk the Orchestrator enqueues is
\* eventually delivered to exactly one Worker and its ResultRecord is
\* eventually consumed by the Writer.
C6_EventualDelivery ==
  \A i \in ChunkIds :
    (Len(enqLog) > i) ~> (delivered[i] = 1 /\ consumed[i] = 1)

C6_Witness ==
  /\ numWorkers = 2
  /\ Len(enqLog) >= 2
  /\ \A i \in 0..(Len(enqLog) - 1) : consumed[i] = 1

\* C8: once every chunk is consumed and acknowledged and every Worker and
\* the Writer has exited with code 0, the Orchestrator's main sequence
\* eventually completes and returns 0.
AllChildrenDone0 ==
  /\ supPc # "none"
  /\ wqUnfinished = 0
  /\ rqUnfinished = 0
  /\ \A w \in 1..numWorkers : workerPc[w] = "exited" /\ wExit[w] = 0
  /\ writerPc = "exited" /\ writerExit = 0

C8_Completion == AllChildrenDone0 ~> (orchPc = "done" /\ runExit = 0)

C8_Witness ==
  /\ orchPc = "done"
  /\ runExit = 0
  /\ numWorkers = 2
  /\ Len(enqLog) >= 2

\* C7 (as stated): once the Supervisor has acted on a failed child, every
\* monitored process has exited and the run's exit code is the code of the
\* child whose failure triggered the abort.
C7_Original ==
  supPc = "aborted" =>
    /\ runExit = firstFail
    /\ \A w \in 1..numWorkers : workerPc[w] = "exited"
    /\ writerPc = "exited"

\* C7 (amended): a poll of the Supervisor reads the children one at a time
\* in launch order (Workers by index, then the Writer). A poll that starts
\* while some child has already exited with a nonzero code aborts. The
\* abort code is the first nonzero exit code this poll read, so it belongs
\* to a failed child no later in launch order than every child that had
\* failed when the poll started; a child that failed after it was read is
\* passed over, even if it failed first. The run then ends by os._exit with
\* that code modulo 256, once every child has been terminated or has exited.
C7_FailFast ==
  [][LET failed(i) == IF i = numWorkers + 1
                        THEN writerPc = "exited" /\ writerExit # 0
                        ELSE workerPc[i] = "exited" /\ wExit[i] # 0
         code(i) == IF i = numWorkers + 1 THEN writerExit ELSE wExit[i]
         kids == 1..(numWorkers + 1)
     IN /\ (supPc = "scanCodes" /\ supPc' \notin {"scanCodes"}
              /\ pollFailedAtStart # {}) => supPc' = "killing"
        /\ (supPc' = "killing" /\ supPc # "killing") =>
             \E i \in kids :
               /\ failed(i)
               /\ code(i) = abortCode'
               /\ \A j \in pollFailedAtStart : i <= j
        /\ (supPc' = "aborted" /\ supPc # "aborted") =>
             /\ supPc = "killing"
             /\ runExit' = abortCode % 256
             /\ orchPc' = "killed"
             /\ \A w \in 1..numWorkers : workerPc'[w] = "exited"
             /\ writerPc' = "exited"]_vars

C7_Witness ==
  /\ supPc = "aborted"
  /\ numWorkers = 2
  /\ wExit[2] = 1
  /\ wExit[1] = -9
  /\ writerExit = -15
  /\ firstFail = -9
  /\ runExit = 1

\* C10: the Writer stops normally only when the Orchestrator has told it
\* to through an explicit shutdown call, the Orchestrator makes that call
\* once all Workers have joined and only then, and the ResultQueue carries
\* results only (no sentinel).
C10_Original ==
  /\ [][(writerPc # "exited" /\ writerPc' = "exited" /\ writerExit' = 0)
          => shutdownCalled]_vars
  /\ [](shutdownCalled =>
          /\ joinIdx = numWorkers
          /\ \A w \in 1..numWorkers : workerPc[w] = "exited")
  /\ [](\A k \in 1..Len(rq) : rq[k].kind = "chunk")
  /\ ((orchPc = "joinMonitor") ~> shutdownCalled)

\* C11: when an exception escapes the Orchestrator's main sequence, no
\* Worker process is left alive, on every run path (profiling included).
C11_Original ==
  orchPc = "raised" =>
    \A w \in 1..numWorkers : workerPc[w] \in {"none", "exited"}

\* C12: a non-positive queue capacity is rejected before any Worker or the
\* Writer is spawned: no run with such a configuration has a spawned child.
C12_Original ==
  maxQueueSize <= 0 =>
    /\ \A w \in Slots : workerPc[w] = "none"
    /\ writerPc = "none"

\* C13: _mainLoop returns 0 only after the Supervisor has returned, and the
\* Supervisor returns only when every Worker and the Writer has exited with
\* code 0.
C13_ZeroOnlyOnSuccess ==
  /\ supPc = "returned" =>
       /\ \A w \in 1..numWorkers : workerPc[w] = "exited" /\ wExit[w] = 0
       /\ writerPc = "exited" /\ writerExit = 0
  /\ orchPc = "done" =>
       /\ runExit = 0
       /\ supPc = "returned"
       /\ \A w \in 1..numWorkers : workerPc[w] = "exited" /\ wExit[w] = 0
       /\ writerPc = "exited" /\ writerExit = 0

C13_Witness ==
  /\ orchPc = "done"
  /\ numWorkers = 2
  /\ Len(enqLog) >= 1

====
